---- MODULE Spec2Model ----
(***************************************************************************)
(* A model of flask_discord_interactions/context.py: the Context that is   *)
(* parsed from an interaction payload (from_data), its argument builders   *)
(* (create_args, create_handler_args), freeze(), and the outbound actions  *)
(* of Context and AsyncContext.                                            *)
(*                                                                         *)
(* Strings the code looks inside (custom_id) are sequences of one-char     *)
(* strings; opaque strings (names, IDs, urls parts) are TLA+ strings.      *)
(* Python's None is the string "None" for opaque values.                   *)
(***************************************************************************)
EXTENDS Integers, Sequences, FiniteSets, TLC

VARIABLES
    pc,          \* "unparsed" | "parsed" | "failed" (from_data raised)
    data,        \* the raw interaction payload handed to from_data
    app,         \* the live application object given to from_data
    liveHeaders, \* what discord.auth_headers(app) returns right now
    session,     \* app.discord_client_session: its defaults
    ctx,         \* the Context built by from_data
    frozen,      \* the Context returned by ctx.freeze(), if any
    ret          \* outcome of the last call on a Context

vars == <<pc, data, app, liveHeaders, session, ctx, frozen, ret>>

(***************************************************************************)
(* Bounds                                                                  *)
(***************************************************************************)
MaxTokens == 2      \* state tokens after the primary id in a custom_id
MaxParams == 2      \* handler parameters after the Context parameter
MaxLeaves == 2      \* leaf options under one subcommand
MaxDepth  == 2      \* nesting depth of subcommand groups and subcommands

(***************************************************************************)
(* Python string helpers                                                   *)
(***************************************************************************)
NL == "\n"

Min(a, b) == IF a < b THEN a ELSE b

\* index of the first newline of s, 0 if there is none
FirstNL(s) ==
    IF \E i \in 1..Len(s) : s[i] = NL
    THEN CHOOSE i \in 1..Len(s) : s[i] = NL /\ \A j \in 1..(i-1) : s[j] # NL
    ELSE 0

RECURSIVE Split(_)
\* str.split("\n")
Split(s) ==
    LET i == FirstNL(s) IN
    IF i = 0 THEN <<s>>
    ELSE <<SubSeq(s, 1, i-1)>> \o Split(SubSeq(s, i+1, Len(s)))

\* str.rsplit("\n", 1) in the place of str.split("\n", 1)
Split1_rsplit(s) ==
    IF FirstNL(s) = 0 THEN <<s>>
    ELSE LET i == CHOOSE i \in 1..Len(s) :
                    s[i] = NL /\ \A j \in (i+1)..Len(s) : s[j] # NL
         IN <<SubSeq(s, 1, i-1), SubSeq(s, i+1, Len(s))>>

\* str.split("\n", 1)
Split1(s) ==
    LET i == FirstNL(s) IN
    IF i = 0 THEN <<s>>
    ELSE <<SubSeq(s, 1, i-1), SubSeq(s, i+1, Len(s))>>

RECURSIVE Join(_)
\* "\n".join(parts), for a non-empty list
Join(parts) ==
    IF Len(parts) = 1 THEN parts[1]
    ELSE parts[1] \o <<NL>> \o Join(Tail(parts))

Digits == <<"0", "1", "2", "3", "4", "5", "6", "7", "8", "9">>
IsDigit(c) == \E d \in 1..10 : Digits[d] = c
DigitVal(c) == (CHOOSE d \in 1..10 : Digits[d] = c) - 1
IsSpace(c) == c \in {" ", "\t"}

RECURSIVE LStrip(_)
LStrip(s) == IF s # <<>> /\ IsSpace(s[1]) THEN LStrip(Tail(s)) ELSE s

RECURSIVE RStrip(_)
RStrip(s) ==
    IF s # <<>> /\ IsSpace(s[Len(s)]) THEN RStrip(SubSeq(s, 1, Len(s)-1)) ELSE s

\* the digit group of an int literal: digits, single underscores between them
IsDigitGroup(s) ==
    /\ s # <<>>
    /\ \A i \in 1..Len(s) : IsDigit(s[i]) \/ s[i] = "_"
    /\ IsDigit(s[1]) /\ IsDigit(s[Len(s)])
    /\ \A i \in 1..(Len(s)-1) : ~(s[i] = "_" /\ s[i+1] = "_")

RECURSIVE DigitGroupVal(_, _)
DigitGroupVal(s, acc) ==
    IF s = <<>> THEN acc
    ELSE IF s[1] = "_" THEN DigitGroupVal(Tail(s), acc)
    ELSE DigitGroupVal(Tail(s), 10 * acc + DigitVal(s[1]))

\* int(argument) on a str: [ok, n]; ok = FALSE is Python's ValueError
PyInt(s) ==
    LET t    == RStrip(LStrip(s))
        sgn  == IF t # <<>> /\ t[1] \in {"+", "-"} THEN t[1] ELSE ""
        body == IF sgn = "" THEN t ELSE Tail(t)
    IN  IF IsDigitGroup(body)
        THEN [ok |-> TRUE,
              n  |-> IF sgn = "-" THEN 0 - DigitGroupVal(body, 0)
                     ELSE DigitGroupVal(body, 0)]
        ELSE [ok |-> FALSE, n |-> 0]

(***************************************************************************)
(* Values handed to a handler by create_handler_args                       *)
(***************************************************************************)
StrArg(s)  == [t |-> "str",  s |-> s,    n |-> 0, b |-> FALSE]
IntArg(n)  == [t |-> "int",  s |-> <<>>, n |-> n, b |-> FALSE]
BoolArg(b) == [t |-> "bool", s |-> <<>>, n |-> 0, b |-> b]
NoneArg    == [t |-> "None", s |-> <<>>, n |-> 0, b |-> FALSE]

S_True  == <<"T", "r", "u", "e">>
S_False == <<"F", "a", "l", "s", "e">>
S_None  == <<"N", "o", "n", "e">>

\* a bool annotation handled as a truth test: anything but "True" is False
CoerceOne_truthy(argument, annotation) ==
    IF annotation = "int" THEN
        LET r == PyInt(argument) IN
        [ok |-> r.ok, v |-> IntArg(r.n)]
    ELSE IF annotation = "bool" THEN
        [ok |-> TRUE, v |-> BoolArg(argument = S_True)]
    ELSE [ok |-> TRUE, v |-> StrArg(argument)]

\* the body of the for loop of create_handler_args for one (argument,
\* parameter) pair: [ok, v]; ok = FALSE is the ValueError of int() or of
\* the explicit raise
CoerceOne(argument, annotation) ==
    IF annotation = "int" THEN
        LET r == PyInt(argument) IN
        [ok |-> r.ok, v |-> IntArg(r.n)]
    ELSE IF annotation = "bool" THEN
        IF argument = S_True THEN [ok |-> TRUE, v |-> BoolArg(TRUE)]
        ELSE IF argument = S_False THEN [ok |-> TRUE, v |-> BoolArg(FALSE)]
        ELSE IF argument = S_None THEN [ok |-> TRUE, v |-> NoneArg]
        ELSE [ok |-> FALSE, v |-> NoneArg]
    ELSE [ok |-> TRUE, v |-> StrArg(argument)]

RECURSIVE CoerceLoop(_, _, _)
\* the zip loop: i runs over the pairs (args[i], parameters[i]) and stops at
\* the shorter of the two; args[i] is replaced in place
CoerceLoop(args, params, i) ==
    IF i > Min(Len(args), Len(params)) THEN [status |-> "ok", args |-> args]
    ELSE LET r == CoerceOne(args[i].s, params[i]) IN
         IF ~r.ok THEN [status |-> "ValueError", args |-> <<>>]
         ELSE CoerceLoop([args EXCEPT ![i] = r.v], params, i + 1)

\* the state tokens cut down to the number of parameters
coerce_truncating(args, params, i) ==
    LET r == CoerceLoop(args, params, i) IN
    [r EXCEPT !.args = SubSeq(r.args, 1, Min(Len(r.args), Len(params)))]

\* the for loop of create_handler_args and its "return args", entered at i
coerce(args, params, i) == CoerceLoop(args, params, i)

\* args = self.handler_state[1:], a new list of the same strings
StateSlice(handler_state) ==
    [i \in 1..(Len(handler_state) - 1) |-> StrArg(handler_state[i + 1])]

\* the loop run on self.handler_state itself, not on a copy: a converted
\* token is no longer the string it was
create_handler_args_inplace(c, params) ==
    LET r == coerce(StateSlice(c.handler_state), params, 1) IN
    [status |-> r.status, args |-> r.args,
     handler_state |->
        [i \in 1..Len(c.handler_state) |->
            IF i = 1 \/ r.status # "ok" THEN c.handler_state[i]
            ELSE IF r.args[i - 1].t = "str" THEN c.handler_state[i]
            ELSE <<"<", r.args[i - 1].t, ">">>]]

\* Context.create_handler_args(handler): [status, args, handler_state];
\* params are the annotations of the handler's parameters after the first,
\* handler_state is self.handler_state as the call leaves it
create_handler_args(c, params) ==
    LET r == coerce(StateSlice(c.handler_state), params, 1) IN
    [status |-> r.status, args |-> r.args, handler_state |-> c.handler_state]

(***************************************************************************)
(* Entities.  Member.from_dict, Channel.from_dict, Role.from_dict and      *)
(* Message.from_dict are structural constructors: the model keeps what     *)
(* they were built from.  A member record is built from the member's own   *)
(* info and the "user" entry merged into it.                               *)
(***************************************************************************)
Entity(kind, info, user) == [kind |-> kind, info |-> info, user |-> user]
Null == Entity("None", "None", "None")

EmptyMap == [k \in {} |-> "None"]

Put(m, k, v) == [x \in (DOMAIN m) \cup {k} |-> IF x = k THEN v ELSE m[x]]

\* dict.update
Update(m, n) ==
    [x \in (DOMAIN m) \cup (DOMAIN n) |-> IF x \in DOMAIN n THEN n[x] ELSE m[x]]

(***************************************************************************)
(* Context.from_data                                                       *)
(***************************************************************************)
\* Context.parse_custom_id
parse_custom_id(c) ==
    [c EXCEPT !.primary_id = Split1(c.custom_id)[1],
              !.handler_state = Split(c.custom_id)]

\* Context.parse_resolved: [status, c].  Each member's info gets its "user"
\* entry written into the raw resolved data before the Member is built.
parse_resolved(c) ==
    LET r == c.resolved IN
    IF \E id \in DOMAIN r.members : id \notin DOMAIN r.users
    THEN [status |-> "KeyError", c |-> c]
    ELSE
      LET merged == [id \in DOMAIN r.members |->
                        [r.members[id] EXCEPT !.user = r.users[id]]]
      IN [status |-> "ok",
          c |-> [c EXCEPT
                   !.resolved = [r EXCEPT !.members = merged],
                   !.members = [id \in DOMAIN merged |->
                        Entity("Member", merged[id].info, merged[id].user)],
                   !.channels = [id \in DOMAIN r.channels |->
                        Entity("Channel", r.channels[id], "None")],
                   !.roles = [id \in DOMAIN r.roles |->
                        Entity("Role", r.roles[id], "None")],
                   !.messages = [id \in DOMAIN r.messages |->
                        Entity("Message", r.messages[id], "None")]]]

\* a lookup that gives None for an absent key (dict.get) in place of [...]
lookup_target_get(map, id) ==
    IF id \in DOMAIN map THEN [status |-> "ok", v |-> map[id]]
    ELSE [status |-> "ok", v |-> Null]

\* self.members[self.target_id] / self.messages[self.target_id]: [status, v]
lookup_target(map, id) ==
    IF id \in DOMAIN map THEN [status |-> "ok", v |-> map[id]]
    ELSE [status |-> "KeyError", v |-> Null]

\* the MESSAGE branch reading self.members
target_map_members(c) == c.members

\* the map parse_target reads for the type of c
target_map(c) == IF c.type = "USER" THEN c.members ELSE c.messages

\* Context.parse_target: [status, c]
parse_target(c) ==
    IF c.type \in {"USER", "MESSAGE"} THEN
        LET r == lookup_target(target_map(c), c.target_id) IN
        IF r.status = "ok"
        THEN [status |-> "ok", c |-> [c EXCEPT !.target = r.v]]
        ELSE [status |-> r.status, c |-> c]
    ELSE [status |-> "ok", c |-> [c EXCEPT !.target = Null]]

DontRegister(a) == a.config["DONT_REGISTER_WITH_DISCORD"]

\* AsyncContext.__post_init__: whether self.session gets set
post_init_session(cls, a) ==
    IF cls = "AsyncContext"
    THEN ~(a.kind = "None" \/ DontRegister(a))
    ELSE FALSE

\* cls.from_data(discord, app, data): [status, c].  d.type is "None" when
\* the payload gives no (or a falsy) type; d.custom_id likewise.
from_data(cls, discord, a, d) ==
    LET result ==
          [cls |-> cls,
           app |-> a,
           discord |-> discord,
           type |-> IF d.type = "None" THEN "CHAT_INPUT" ELSE d.type,
           token |-> d.token,
           guild_id |-> d.guild_id,
           options |-> d.options,
           resolved |-> d.resolved,
           command_id |-> d.command_id,
           custom_id |-> IF d.custom_id.present THEN d.custom_id.s ELSE <<>>,
           target_id |-> d.target_id,
           primary_id |-> <<>>,
           handler_state |-> <<>>,
           members |-> EmptyMap, channels |-> EmptyMap,
           roles |-> EmptyMap, messages |-> EmptyMap,
           target |-> Null,
           session |-> post_init_session(cls, a),
           frozen_auth_headers |-> "unset"]
        r1 == parse_resolved(parse_custom_id(result))
        r2 == parse_target(r1.c)
    IN  IF r1.status # "ok" THEN [status |-> r1.status, c |-> result]
        ELSE IF r2.status # "ok" THEN [status |-> r2.status, c |-> result]
        ELSE [status |-> "ok", c |-> r2.c]

(***************************************************************************)
(* Context.create_args                                                     *)
(***************************************************************************)
NameArg(n) == Entity("name", n, "None")
RawArg(v)  == Entity("raw", v, "None")

NoArgs(resolved) ==
    [status |-> "ok", args |-> <<>>, kwargs |-> EmptyMap, resolved |-> resolved]

\* the subcommand's name put after what was found below it
merge_sub_postorder(st, option, sub) ==
    [status |-> "ok",
     args |-> (st.args \o sub.args) \o <<NameArg(option.name)>>,
     kwargs |-> Update(st.kwargs, sub.kwargs),
     resolved |-> sub.resolved]

\* the SUB_COMMAND / SUB_COMMAND_GROUP branch once the recursive call has
\* returned sub: args.append(name); args += sub_args; kwargs.update(sub_kwargs)
merge_sub(st, option, sub) ==
    [status |-> "ok",
     args |-> Append(st.args, NameArg(option.name)) \o sub.args,
     kwargs |-> Update(st.kwargs, sub.kwargs),
     resolved |-> sub.resolved]

RECURSIVE create_args_loop(_, _)
\* the for loop of create_args_recursive over the options opts, continuing
\* from st = [status, args, kwargs, resolved]; resolved is the raw resolved
\* data, which the USER branch writes to
create_args_loop(opts, st) ==
    IF opts = <<>> \/ st.status # "ok" THEN st
    ELSE
      LET option == opts[1]
          rest   == Tail(opts)
          res    == st.resolved
      IN
      IF option.type \in {"SUB_COMMAND", "SUB_COMMAND_GROUP"} THEN
          LET sub == create_args_loop(option.options, NoArgs(res)) IN
          IF sub.status # "ok" THEN [st EXCEPT !.status = sub.status]
          ELSE create_args_loop(rest, merge_sub(st, option, sub))
      ELSE IF option.type = "USER" THEN
          IF option.value \notin DOMAIN res.members
             \/ option.value \notin DOMAIN res.users
          THEN [st EXCEPT !.status = "KeyError"]
          ELSE
            LET member_data ==
                  [res.members[option.value] EXCEPT !.user = res.users[option.value]]
            IN create_args_loop(rest,
                 [st EXCEPT
                    !.resolved = [res EXCEPT !.members[option.value] = member_data],
                    !.kwargs = Put(st.kwargs, option.name,
                        Entity("Member", member_data.info, member_data.user))])
      ELSE IF option.type = "CHANNEL" THEN
          IF option.value \notin DOMAIN res.channels
          THEN [st EXCEPT !.status = "KeyError"]
          ELSE create_args_loop(rest,
                 [st EXCEPT !.kwargs = Put(st.kwargs, option.name,
                        Entity("Channel", res.channels[option.value], "None"))])
      ELSE IF option.type = "ROLE" THEN
          IF option.value \notin DOMAIN res.roles
          THEN [st EXCEPT !.status = "KeyError"]
          ELSE create_args_loop(rest,
                 [st EXCEPT !.kwargs = Put(st.kwargs, option.name,
                        Entity("Role", res.roles[option.value], "None"))])
      ELSE create_args_loop(rest,
                 [st EXCEPT !.kwargs = Put(st.kwargs, option.name,
                        RawArg(option.value))])

\* Context.create_args_chat_input
create_args_chat_input(c) ==
    create_args_loop(IF c.options.present THEN c.options.v ELSE <<>>,
                     NoArgs(c.resolved))

\* Context.create_args: [status, none, args, kwargs, resolved]; none is
\* TRUE when no branch returns (type is none of the three)
create_args(c) ==
    IF c.type = "CHAT_INPUT" THEN
        LET r == create_args_chat_input(c) IN
        [status |-> r.status, none |-> FALSE,
         args |-> IF r.status = "ok" THEN r.args ELSE <<>>,
         kwargs |-> IF r.status = "ok" THEN r.kwargs ELSE EmptyMap,
         resolved |-> r.resolved]
    ELSE IF c.type \in {"USER", "MESSAGE"} THEN
        [status |-> "ok", none |-> FALSE, args |-> <<c.target>>,
         kwargs |-> EmptyMap, resolved |-> c.resolved]
    ELSE [status |-> "ok", none |-> TRUE, args |-> <<>>,
          kwargs |-> EmptyMap, resolved |-> c.resolved]

(***************************************************************************)
(* Outbound actions.  A call's outcome is [status, value, req]: status     *)
(* "ok" or the exception raised, value the returned value ("None" when     *)
(* nothing is returned), req the HTTP request handed to the transport      *)
(* (NoReq when none was).  remote = [status, id] is the platform's answer. *)
(***************************************************************************)
NoUrl == [kind |-> "None", base |-> "None", client |-> "None",
          token |-> "None", message |-> "None"]
NoBody == <<"None", "None">>
NoReq == [method |-> "None", url |-> NoUrl, headers |-> "None", body |-> NoBody]

Outcome(status, value, req) == [status |-> status, value |-> value, req |-> req]

Returned(value) == Outcome("ok", value, NoReq)
Raised(exc)     == Outcome(exc, "None", NoReq)

\* Context.followup_url(message); message "None" is Python's None
followup_url(c, message) ==
    [kind |-> "webhooks",
     base |-> c.app.config["DISCORD_BASE_URL"],
     client |-> c.app.config["DISCORD_CLIENT_ID"],
     token |-> c.token,
     message |-> message]

\* Context.auth_headers: "AttributeError" when there is neither a discord
\* object nor a frozen snapshot
auth_headers(c, live) ==
    IF c.discord THEN live
    ELSE IF c.frozen_auth_headers = "unset" THEN "AttributeError"
    ELSE c.frozen_auth_headers

\* Context.get_command(command_name): [status, id]
get_command(c, command_name) ==
    IF command_name = "None" THEN [status |-> "ok", id |-> c.command_id]
    ELSE IF c.app.kind # "flask" THEN [status |-> "AttributeError", id |-> "None"]
    ELSE IF command_name \in DOMAIN c.app.discord_commands
         THEN [status |-> "ok", id |-> c.app.discord_commands[command_name]]
         ELSE [status |-> "ValueError", id |-> "None"]

\* the url built at the top of overwrite_permissions: [status, url]
permissions_url(c, command) ==
    IF c.app.kind = "None" THEN [status |-> "AttributeError", url |-> NoUrl]
    ELSE LET g == get_command(c, command) IN
         IF g.status # "ok" THEN [status |-> g.status, url |-> NoUrl]
         ELSE [status |-> "ok",
               url |-> [kind |-> "applications",
                        base |-> c.app.config["DISCORD_BASE_URL"],
                        client |-> c.app.config["DISCORD_CLIENT_ID"],
                        token |-> c.guild_id,
                        message |-> g.id]]

\* the guard without its flag test
Skips_noflag(c) == c.app.kind = "None"

\* not self.app or self.app.config["DONT_REGISTER_WITH_DISCORD"]
Skips(c) == c.app.kind = "None" \/ DontRegister(c.app)

Req(method, url, headers, body) ==
    [method |-> method, url |-> url, headers |-> headers, body |-> body]

\* response.raise_for_status() of the blocking client
raise_for_status(remote, value, req) ==
    IF remote.status >= 400 THEN Outcome("HTTPError", "None", req)
    ELSE Outcome("ok", value, req)

\* Context.edit
edit(c, response, message, remote, live) ==
    IF Skips(c) THEN Returned("None")
    ELSE IF auth_headers(c, live) = "AttributeError" THEN Raised("AttributeError")
    ELSE raise_for_status(remote, "None",
            Req("PATCH", followup_url(c, message), auth_headers(c, live),
                <<"followup", response>>))

\* Context.delete
delete(c, message, remote, live) ==
    IF Skips(c) THEN Returned("None")
    ELSE IF auth_headers(c, live) = "AttributeError" THEN Raised("AttributeError")
    ELSE raise_for_status(remote, "None",
            Req("DELETE", followup_url(c, message), auth_headers(c, live),
                NoBody))

\* Context.send
send(c, response, remote, live) ==
    IF Skips(c) THEN Returned("None")
    ELSE IF auth_headers(c, live) = "AttributeError" THEN Raised("AttributeError")
    ELSE raise_for_status(remote, remote.id,
            Req("POST", followup_url(c, "None"), auth_headers(c, live),
                <<"multipart", response>>))

\* Context.overwrite_permissions
overwrite_permissions(c, permissions, command, remote, live) ==
    LET u == permissions_url(c, command) IN
    IF u.status # "ok" THEN Raised(u.status)
    ELSE IF DontRegister(c.app) THEN Returned("None")
    ELSE IF auth_headers(c, live) = "AttributeError" THEN Raised("AttributeError")
    ELSE raise_for_status(remote, "None",
            Req("PUT", u.url, auth_headers(c, live),
                <<"permissions", permissions>>))

(***************************************************************************)
(* AsyncContext.  The calls go through self.session, the application's     *)
(* shared client session sess = [headers, raise_for_status]: a request     *)
(* made without a headers argument carries the session's own headers, and  *)
(* a non-2xx answer raises only if the session was built to.               *)
(***************************************************************************)
session_outcome(sess, remote, value, req) ==
    IF remote.status >= 400 /\ sess.raise_for_status
    THEN Outcome("HTTPError", "None", req)
    ELSE Outcome("ok", value, req)

\* AsyncContext.edit
async_edit(c, response, message, remote, live, sess) ==
    IF Skips(c) THEN Returned("None")
    ELSE session_outcome(sess, remote, "None",
            Req("PATCH", followup_url(c, message), sess.headers,
                <<"followup", response>>))

\* AsyncContext.delete
async_delete(c, message, remote, live, sess) ==
    IF Skips(c) THEN Returned("None")
    ELSE session_outcome(sess, remote, "None",
            Req("DELETE", followup_url(c, message), sess.headers, NoBody))

\* AsyncContext.send: (await response.json())["id"] of an answer that
\* carries no id is a KeyError
async_send(c, response, remote, live, sess) ==
    IF Skips(c) THEN Returned("None")
    ELSE IF auth_headers(c, live) = "AttributeError" THEN Raised("AttributeError")
    ELSE LET req == Req("POST", followup_url(c, "None"), auth_headers(c, live),
                        <<"multipart", response>>)
             o == session_outcome(sess, remote, remote.id, req)
         IN IF o.status = "ok" /\ remote.id = "None"
            THEN Outcome("KeyError", "None", req)
            ELSE o

\* AsyncContext.overwrite_permissions
async_overwrite_permissions(c, permissions, command, remote, live, sess) ==
    LET u == permissions_url(c, command) IN
    IF u.status # "ok" THEN Raised(u.status)
    ELSE IF Skips(c) THEN Returned("None")
    ELSE IF auth_headers(c, live) = "AttributeError" THEN Raised("AttributeError")
    ELSE session_outcome(sess, remote, "None",
            Req("PUT", u.url, auth_headers(c, live),
                <<"permissions", permissions>>))

(***************************************************************************)
(* Context.freeze                                                          *)
(***************************************************************************)
CONFIG_KEYS ==
    {"DISCORD_BASE_URL", "DISCORD_CLIENT_ID", "DONT_REGISTER_WITH_DISCORD"}

\* the types.SimpleNamespace built by freeze(): a config of CONFIG_KEYS only
frozen_app(c) ==
    [kind |-> "namespace",
     config |-> [key \in CONFIG_KEYS |-> c.app.config[key]],
     discord_commands |-> EmptyMap]

\* a copy that keeps the discord object and reads its headers live
freeze_live(c, d, live) ==
    IF c.app.kind = "None" THEN [status |-> "AttributeError", c |-> c]
    ELSE
      LET r == from_data("Context", c.discord, frozen_app(c),
                         [d EXCEPT !.resolved = c.resolved])
      IN IF r.status # "ok" THEN [status |-> r.status, c |-> c]
         ELSE IF auth_headers(c, live) = "AttributeError"
         THEN [status |-> "AttributeError", c |-> c]
         ELSE [status |-> "ok",
               c |-> [r.c EXCEPT !.frozen_auth_headers = auth_headers(c, live)]]

\* Context.freeze(): [status, c].  d is self.data, whose "resolved" is the
\* object self.resolved.
freeze(c, d, live) ==
    IF c.app.kind = "None" THEN [status |-> "AttributeError", c |-> c]
    ELSE
      LET r == from_data("Context", FALSE, frozen_app(c),
                         [d EXCEPT !.resolved = c.resolved])
      IN IF r.status # "ok" THEN [status |-> r.status, c |-> c]
         ELSE IF auth_headers(c, live) = "AttributeError"
         THEN [status |-> "AttributeError", c |-> c]
         ELSE [status |-> "ok",
               c |-> [r.c EXCEPT !.frozen_auth_headers = auth_headers(c, live)]]

(***************************************************************************)
(* State                                                                   *)
(***************************************************************************)
LiveConfig(flag) ==
    [key \in CONFIG_KEYS \cup {"DISCORD_PUBLIC_KEY", "DISCORD_CLIENT_SECRET"} |->
        IF key = "DONT_REGISTER_WITH_DISCORD" THEN flag
        ELSE IF key = "DISCORD_BASE_URL" THEN "https://discord.com/api"
        ELSE IF key = "DISCORD_CLIENT_ID" THEN "client"
        ELSE "secret"]

\* app = None
NoApp == [kind |-> "None", config |-> LiveConfig(FALSE),
          discord_commands |-> EmptyMap]

\* a Flask app with one registered command, "known"
FlaskApp(flag) ==
    [kind |-> "flask", config |-> LiveConfig(flag),
     discord_commands |-> ("known" :> "cmd7")]

Apps == {NoApp, FlaskApp(TRUE), FlaskApp(FALSE)}

Headers == {"Bearer t1", "Bearer t2"}

\* a session built with no defaults, and one built with the headers of its
\* creation time and raise_for_status
Sessions ==
    {[headers |-> "None", raise_for_status |-> FALSE],
     [headers |-> "Bearer t1", raise_for_status |-> TRUE]}

Remotes == {[status |-> 200, id |-> "msg1"], [status |-> 404, id |-> "None"]}

NoCtx ==
    [cls |-> "None", app |-> NoApp, discord |-> FALSE, type |-> "None",
     token |-> "None", guild_id |-> "None",
     options |-> [present |-> FALSE, v |-> <<>>],
     resolved |-> [members |-> EmptyMap, users |-> EmptyMap,
                   channels |-> EmptyMap, roles |-> EmptyMap,
                   messages |-> EmptyMap],
     command_id |-> "None", custom_id |-> <<>>, target_id |-> "None",
     primary_id |-> <<>>, handler_state |-> <<>>,
     members |-> EmptyMap, channels |-> EmptyMap, roles |-> EmptyMap,
     messages |-> EmptyMap, target |-> Null, session |-> FALSE,
     frozen_auth_headers |-> "unset"]

\* the outcome of a call: op the method, who the Context it was called on
\* ("ctx" or "frozen"), flag..req its outcome, args/kwargs what create_args
\* returned, hargs what create_handler_args returned, url what followup_url
\* returned, params/remote the inputs of the call
Ret(op, who, o) ==
    [op |-> op, who |-> who, status |-> o.status, value |-> o.value,
     req |-> o.req, none |-> FALSE, args |-> <<>>, kwargs |-> EmptyMap,
     hargs |-> <<>>, url |-> NoUrl, params |-> <<>>, command |-> "None"]

NoRet == Ret("None", "None", Returned("None"))

(***************************************************************************)
(* Payloads                                                                *)
(***************************************************************************)
Leaf(type, name, value) ==
    [type |-> type, name |-> name, value |-> value, options |-> <<>>]
Sub(type, name, options) ==
    [type |-> type, name |-> name, value |-> "None", options |-> options]

NoResolved ==
    [members |-> EmptyMap, users |-> EmptyMap, channels |-> EmptyMap,
     roles |-> EmptyMap, messages |-> EmptyMap]

\* entity "1" is resolved in every map; user "2" is not a member
ResFull ==
    [members |-> ("1" :> [info |-> "m1", user |-> "None"]),
     users |-> ("1" :> "u1") @@ ("2" :> "u2"),
     channels |-> ("1" :> "c1"),
     roles |-> ("1" :> "r1"),
     messages |-> ("1" :> "hi")]

\* a member without its "users" entry
ResNoUser == [ResFull EXCEPT !.users = EmptyMap]

Payload(type, target_id, resolved, custom_id, options) ==
    [type |-> type, target_id |-> target_id, resolved |-> resolved,
     custom_id |-> custom_id, options |-> options,
     token |-> "tok", guild_id |-> "guild", command_id |-> "cmd1"]

Absent == [present |-> FALSE, s |-> <<>>]
Present(s) == [present |-> TRUE, s |-> s]
NoOptions == [present |-> FALSE, v |-> <<>>]
Options(v) == [present |-> TRUE, v |-> v]

\* "k\n5\nTrue"
KeyFiveTrue == <<"k", NL, "5", NL>> \o S_True

\* a -> b -> x=1, then a user option y
PathAB ==
    <<Sub("SUB_COMMAND_GROUP", "a",
          <<Sub("SUB_COMMAND", "b", <<Leaf("INTEGER", "x", "1")>>)>>),
      Leaf("USER", "y", "1")>>

\* the payloads of the lifecycle: every interaction type with a target that
\* is or is not resolved, a command invocation with options and a component
\* callback with state, and a member whose user entry is missing
Payloads ==
    { Payload(t, id, r, Absent, NoOptions) :
        t \in {"USER", "MESSAGE", "OTHER"}, id \in {"1", "2"},
        r \in {NoResolved, ResFull} }
    \cup
    { Payload(t, "None", r, Present(KeyFiveTrue), Options(PathAB)) :
        t \in {"None", "CHAT_INPUT"}, r \in {NoResolved, ResFull} }
    \cup
    { Payload("USER", "1", ResNoUser, Absent, NoOptions),
      Payload("MESSAGE", "None", ResFull, Absent, NoOptions) }

(***************************************************************************)
(* Actions                                                                 *)
(***************************************************************************)
Whos == {"ctx", "frozen"}
Ctx(who) == IF who = "ctx" THEN ctx ELSE frozen
Exists(who) == Ctx(who).cls # "None"

Annotations == {"int", "bool", "str"}

RECURSIVE SeqsUpTo(_, _)
\* the sequences over S of length at most n
SeqsUpTo(S, n) ==
    IF n = 0 THEN {<<>>}
    ELSE LET shorter == SeqsUpTo(S, n - 1) IN
         shorter \cup {Append(q, x) : q \in shorter, x \in S}

Signatures == SeqsUpTo(Annotations, MaxParams)

\* self.resolved, data["data"]["resolved"] and the resolved of a frozen copy
\* are one dict: a write through one is seen through all
WriteResolved(res) ==
    /\ data' = [data EXCEPT !.resolved = res]
    /\ ctx' = IF ctx.cls # "None" THEN [ctx EXCEPT !.resolved = res] ELSE ctx
    /\ frozen' = IF frozen.cls # "None" THEN [frozen EXCEPT !.resolved = res]
                 ELSE frozen

\* result = cls.from_data(discord, app, data)
FromData ==
    /\ pc = "unparsed"
    /\ \E cls \in {"Context", "AsyncContext"}, discord \in BOOLEAN :
         /\ discord => app.kind # "None"
         /\ LET r == from_data(cls, discord, app, data) IN
            /\ pc' = IF r.status = "ok" THEN "parsed" ELSE "failed"
            /\ ctx' = IF r.status = "ok" THEN r.c ELSE NoCtx
            /\ data' = IF r.status = "ok"
                       THEN [data EXCEPT !.resolved = r.c.resolved] ELSE data
            /\ ret' = Ret("from_data", "ctx", Raised(r.status))
    /\ UNCHANGED <<app, liveHeaders, session, frozen>>

CreateArgs ==
    \E who \in Whos :
      /\ Exists(who)
      /\ LET r == create_args(Ctx(who)) IN
         /\ ret' = [Ret("create_args", who, Raised(r.status)) EXCEPT
                      !.none = r.none, !.args = r.args, !.kwargs = r.kwargs]
         /\ WriteResolved(r.resolved)
      /\ UNCHANGED <<pc, app, liveHeaders, session>>

\* the handlers of the lifecycle: (ctx), (ctx, a: int, b: bool), (ctx, a: bool)
Handlers == {<<>>, <<"int", "bool">>, <<"bool">>}

CreateHandlerArgs(handlers) ==
    \E who \in Whos, params \in handlers :
      /\ Exists(who)
      /\ LET r == create_handler_args(Ctx(who), params) IN
         /\ ret' = [Ret("create_handler_args", who, Raised(r.status)) EXCEPT
                      !.hargs = r.args, !.params = params]
         /\ ctx' = IF who = "ctx"
                   THEN [ctx EXCEPT !.handler_state = r.handler_state] ELSE ctx
         /\ frozen' = IF who = "frozen"
                      THEN [frozen EXCEPT !.handler_state = r.handler_state]
                      ELSE frozen
      /\ UNCHANGED <<pc, data, app, liveHeaders, session>>

Messages == {"@original", "msg1"}
Responses == {"hi"}
Commands == {"None", "known", "nope"}
Permissions == {"[p1]"}

FollowupUrl ==
    \E who \in Whos, message \in Messages \cup {"None"} :
      /\ Exists(who)
      /\ ret' = IF Ctx(who).app.kind = "None"
                THEN Ret("followup_url", who, Raised("AttributeError"))
                ELSE [Ret("followup_url", who, Returned("None")) EXCEPT
                        !.url = followup_url(Ctx(who), message)]
      /\ UNCHANGED <<pc, data, app, liveHeaders, session, ctx, frozen>>

GetCommand ==
    \E who \in Whos, command \in Commands :
      /\ Exists(who)
      /\ LET g == get_command(Ctx(who), command) IN
         ret' = [Ret("get_command", who, Outcome(g.status, g.id, NoReq)) EXCEPT
                   !.command = command]
      /\ UNCHANGED <<pc, data, app, liveHeaders, session, ctx, frozen>>

Freeze ==
    \E who \in Whos :
      /\ Exists(who)
      /\ LET r == freeze(Ctx(who), data, liveHeaders) IN
         /\ frozen' = IF r.status = "ok" THEN r.c ELSE frozen
         /\ ret' = Ret("freeze", who, Raised(r.status))
      /\ UNCHANGED <<pc, data, app, liveHeaders, session, ctx>>

Outbound(op, who, o) ==
    /\ ret' = Ret(op, who, o)
    /\ UNCHANGED <<pc, data, app, liveHeaders, session, ctx, frozen>>

Send ==
    \E who \in Whos, response \in Responses, remote \in Remotes :
      /\ Exists(who) /\ Ctx(who).cls = "Context"
      /\ Outbound("send", who, send(Ctx(who), response, remote, liveHeaders))

Edit ==
    \E who \in Whos, response \in Responses, message \in Messages,
       remote \in Remotes :
      /\ Exists(who) /\ Ctx(who).cls = "Context"
      /\ Outbound("edit", who,
                  edit(Ctx(who), response, message, remote, liveHeaders))

Delete ==
    \E who \in Whos, message \in Messages, remote \in Remotes :
      /\ Exists(who) /\ Ctx(who).cls = "Context"
      /\ Outbound("delete", who, delete(Ctx(who), message, remote, liveHeaders))

OverwritePermissions ==
    \E who \in Whos, permissions \in Permissions, command \in Commands,
       remote \in Remotes :
      /\ Exists(who) /\ Ctx(who).cls = "Context"
      /\ ret' = [Ret("overwrite_permissions", who,
                     overwrite_permissions(Ctx(who), permissions, command,
                                           remote, liveHeaders))
                 EXCEPT !.command = command]
      /\ UNCHANGED <<pc, data, app, liveHeaders, session, ctx, frozen>>

AsyncSend ==
    \E response \in Responses, remote \in Remotes :
      /\ Exists("ctx") /\ ctx.cls = "AsyncContext"
      /\ Outbound("send", "ctx",
                  async_send(ctx, response, remote, liveHeaders, session))

AsyncEdit ==
    \E response \in Responses, message \in Messages, remote \in Remotes :
      /\ Exists("ctx") /\ ctx.cls = "AsyncContext"
      /\ Outbound("edit", "ctx",
                  async_edit(ctx, response, message, remote, liveHeaders, session))

AsyncDelete ==
    \E message \in Messages, remote \in Remotes :
      /\ Exists("ctx") /\ ctx.cls = "AsyncContext"
      /\ Outbound("delete", "ctx",
                  async_delete(ctx, message, remote, liveHeaders, session))

AsyncOverwritePermissions ==
    \E permissions \in Permissions, command \in Commands, remote \in Remotes :
      /\ Exists("ctx") /\ ctx.cls = "AsyncContext"
      /\ ret' = [Ret("overwrite_permissions", "ctx",
                     async_overwrite_permissions(ctx, permissions, command,
                                                 remote, liveHeaders, session))
                 EXCEPT !.command = command]
      /\ UNCHANGED <<pc, data, app, liveHeaders, session, ctx, frozen>>

\* the application obtains a new token: discord.auth_headers(app) changes
RefreshToken ==
    /\ app.kind # "None"
    /\ \E h \in Headers \ {liveHeaders} : liveHeaders' = h
    /\ UNCHANGED <<pc, data, app, session, ctx, frozen, ret>>

Init ==
    /\ pc = "unparsed"
    /\ data \in Payloads
    /\ app \in Apps
    /\ liveHeaders = "Bearer t1"
    /\ session \in Sessions
    /\ ctx = NoCtx
    /\ frozen = NoCtx
    /\ ret = NoRet

Next ==
    \/ FromData
    \/ CreateArgs
    \/ CreateHandlerArgs(Handlers)
    \/ FollowupUrl
    \/ GetCommand
    \/ Freeze
    \/ Send
    \/ Edit
    \/ Delete
    \/ OverwritePermissions
    \/ AsyncSend
    \/ AsyncEdit
    \/ AsyncDelete
    \/ AsyncOverwritePermissions
    \/ RefreshToken

Spec == Init /\ [][Next]_vars

(***************************************************************************)
(* The custom-id codec on its own: every custom_id made of a key and up    *)
(* to MaxTokens state tokens, against every handler signature of up to     *)
(* MaxParams annotated parameters.                                         *)
(***************************************************************************)
\* "5", " -1_0", "True", "False", "None", ""
TokenSet ==
    {<<"5">>, <<" ", "-", "1", "_", "0">>, S_True, S_False, S_None, <<>>}

\* no custom_id, the empty custom_id, and the key "k" followed by up to
\* MaxTokens state tokens
CustomIds ==
    {Absent, Present(<<>>)} \cup
    {Present(Join(<<<<"k">>>> \o toks)) : toks \in SeqsUpTo(TokenSet, MaxTokens)}

CodecPayloads ==
    {Payload("None", "None", NoResolved, cid, NoOptions) : cid \in CustomIds}

InitCodec ==
    /\ pc = "unparsed"
    /\ data \in CodecPayloads
    /\ app = NoApp
    /\ liveHeaders = "Bearer t1"
    /\ session = [headers |-> "None", raise_for_status |-> FALSE]
    /\ ctx = NoCtx
    /\ frozen = NoCtx
    /\ ret = NoRet

NextCodec ==
    \/ FromData
    \/ CreateHandlerArgs(Signatures)

SpecCodec == InitCodec /\ [][NextCodec]_vars

(***************************************************************************)
(* The argument reconstructor on its own: option trees of subcommand       *)
(* groups, subcommands and leaves, against a resolved table that does or   *)
(* does not hold the entities the leaves refer to.                         *)
(***************************************************************************)
Leaves ==
    {Leaf("INTEGER", "x", "1"), Leaf("USER", "y", "1"),
     Leaf("CHANNEL", "z", "1"), Leaf("ROLE", "w", "1")}

LeafLists == SeqsUpTo(Leaves, MaxLeaves)

RECURSIVE Chains(_)
\* the subcommand "b" over leaves, under up to d - 1 subcommand groups "a"
Chains(d) ==
    IF d = 0 THEN {}
    ELSE {Sub("SUB_COMMAND", "b", l) : l \in LeafLists}
         \cup {Sub("SUB_COMMAND_GROUP", "a", <<c>>) : c \in Chains(d - 1)}

Nodes == Leaves \cup Chains(MaxDepth)

\* what may follow the first top-level option: a leaf, or the subcommand "c"
\* with at most one leaf
Siblings ==
    Leaves \cup {Sub("SUB_COMMAND", "c", <<>>)}
           \cup {Sub("SUB_COMMAND", "c", <<l>>) : l \in Leaves}

\* the top level holds no, one or two options
Trees ==
    {<<>>} \cup {<<n>> : n \in Nodes}
           \cup {<<n, m>> : n \in Nodes, m \in Siblings}

ArgPayloads ==
    { Payload(t, "None", r, Absent, Options(o)) :
        t \in {"CHAT_INPUT"}, r \in {NoResolved, ResFull}, o \in Trees }
    \cup
    { Payload("None", "None", ResFull, Absent, NoOptions) }
    \cup
    { Payload(t, id, r, Absent, NoOptions) :
        t \in {"USER", "MESSAGE"}, id \in {"None", "1", "2"},
        r \in {NoResolved, ResFull} }

InitArgs ==
    /\ pc = "unparsed"
    /\ data \in ArgPayloads
    /\ app = NoApp
    /\ liveHeaders = "Bearer t1"
    /\ session = [headers |-> "None", raise_for_status |-> FALSE]
    /\ ctx = NoCtx
    /\ frozen = NoCtx
    /\ ret = NoRet

NextArgs ==
    \/ FromData
    \/ CreateArgs

SpecArgs == InitArgs /\ [][NextArgs]_vars

(***************************************************************************)
(* Properties of the custom-id codec (checked under SpecCodec)             *)
(***************************************************************************)
\* the custom_id of the payload, "" when it gives none
PayloadCustomId == IF data.custom_id.present THEN data.custom_id.s ELSE <<>>

\* C2: after from_data, handler_state is the full newline split of the
\* custom_id (its parts hold no newline and join back to the custom_id) and
\* primary_id is the text before the first newline, so primary_id =
\* handler_state[0]; an empty or absent custom_id gives "" and [""], and
\* "k\n5\nTrue" gives "k" and ["k", "5", "True"].
C2_ParseCustomId ==
    pc = "parsed" =>
      LET hs == ctx.handler_state IN
      /\ ctx.custom_id = PayloadCustomId
      /\ Len(hs) >= 1
      /\ Join(hs) = PayloadCustomId
      /\ \A i \in 1..Len(hs) : \A j \in 1..Len(hs[i]) : hs[i][j] # NL
      /\ ctx.primary_id = hs[1]
      /\ (PayloadCustomId = <<>> =>
            ctx.primary_id = <<>> /\ hs = << <<>> >>)
      /\ (PayloadCustomId = KeyFiveTrue =>
            ctx.primary_id = <<"k">> /\ hs = << <<"k">>, <<"5">>, S_True >>)

C2_Witness ==
    /\ pc = "parsed"
    /\ ctx.custom_id = KeyFiveTrue
    /\ Len(ctx.handler_state) = 3

\* what each token of TokenSet is as an integer, for those that are one
IntOracle == (<<"5">> :> 5) @@ (<<" ", "-", "1", "_", "0">> :> (0 - 10))

\* what each token of TokenSet is as a boolean, for those that are one
BoolOracle ==
    (S_True :> BoolArg(TRUE)) @@ (S_False :> BoolArg(FALSE)) @@ (S_None :> NoneArg)

Convertible(tok, annotation) ==
    /\ annotation = "int" => tok \in DOMAIN IntOracle
    /\ annotation = "bool" => tok \in DOMAIN BoolOracle

Converted(tok, annotation) ==
    IF annotation = "int" THEN IntArg(IntOracle[tok])
    ELSE IF annotation = "bool" THEN BoolOracle[tok]
    ELSE StrArg(tok)

HandlerArgsCall == ret.op = "create_handler_args" /\ ret.who = "ctx"

\* the state tokens and how many of them face a parameter
StateTokens == Tail(ctx.handler_state)
Paired == Min(Len(StateTokens), Len(ret.params))

\* C3: create_handler_args converts state token i by the annotation of
\* parameter i after the Context parameter: int gives the integer value,
\* bool gives True/False/None for "True"/"False"/"None", anything else
\* leaves the string; it raises (ValueError) and returns no list exactly
\* when some paired token is not convertible.
C3_Coercion ==
    HandlerArgsCall =>
      /\ ret.status \in {"ok", "ValueError"}
      /\ ret.status = "ok" <=>
            \A i \in 1..Paired : Convertible(StateTokens[i], ret.params[i])
      /\ ret.status = "ok" =>
            \A i \in 1..Paired :
               ret.hargs[i] = Converted(StateTokens[i], ret.params[i])
      /\ ret.status # "ok" => ret.hargs = <<>>

C3_Witness ==
    /\ HandlerArgsCall
    /\ ret.params = <<"int", "bool">>
    /\ StateTokens = << <<"5">>, S_True >>
    /\ ret.hargs = <<IntArg(5), BoolArg(TRUE)>>

\* C4 as stated: the returned list has exactly min(n, p) elements.
C4_Original ==
    (HandlerArgsCall /\ ret.status = "ok") => Len(ret.hargs) = Paired

\* C4 amended: the returned list has all n state tokens; only the first
\* min(n, p) are converted, the tokens beyond the parameter count come back
\* as the unconverted strings; fewer tokens than parameters is no error.
C4_Amended ==
    (HandlerArgsCall /\ ret.status = "ok") =>
      /\ Len(ret.hargs) = Len(StateTokens)
      /\ \A i \in (Paired + 1)..Len(StateTokens) :
            ret.hargs[i] = StrArg(StateTokens[i])

C4_Witness ==
    /\ HandlerArgsCall /\ ret.status = "ok"
    /\ ret.params = <<"int">>
    /\ Len(StateTokens) = 2
    /\ ret.hargs = <<IntArg(5), StrArg(S_True)>>

(***************************************************************************)
(* Properties of the argument reconstructor (checked under SpecArgs)       *)
(***************************************************************************)
IsSub(o) == o.type \in {"SUB_COMMAND", "SUB_COMMAND_GROUP"}

RECURSIVE PathNames(_)
\* the names of the subcommand and group nodes, depth first
PathNames(opts) ==
    IF opts = <<>> THEN <<>>
    ELSE (IF IsSub(opts[1]) THEN <<opts[1].name>> \o PathNames(opts[1].options)
          ELSE <<>>)
         \o PathNames(Tail(opts))

RECURSIVE LeafSeq(_)
\* the leaves of the tree
LeafSeq(opts) ==
    IF opts = <<>> THEN <<>>
    ELSE (IF IsSub(opts[1]) THEN LeafSeq(opts[1].options) ELSE <<opts[1]>>)
         \o LeafSeq(Tail(opts))

UniqueNames(leaves) ==
    \A i, j \in 1..Len(leaves) : leaves[i].name = leaves[j].name => i = j

\* the resolved table of the payload has what the leaf refers to
Resolvable(leaf) ==
    /\ leaf.type = "USER" =>
          /\ leaf.value \in DOMAIN data.resolved.members
          /\ leaf.value \in DOMAIN data.resolved.users
    /\ leaf.type = "CHANNEL" => leaf.value \in DOMAIN data.resolved.channels
    /\ leaf.type = "ROLE" => leaf.value \in DOMAIN data.resolved.roles

LeafValue(leaf) ==
    IF leaf.type = "USER"
    THEN Entity("Member", data.resolved.members[leaf.value].info,
                data.resolved.users[leaf.value])
    ELSE IF leaf.type = "CHANNEL"
    THEN Entity("Channel", data.resolved.channels[leaf.value], "None")
    ELSE IF leaf.type = "ROLE"
    THEN Entity("Role", data.resolved.roles[leaf.value], "None")
    ELSE RawArg(leaf.value)

PayloadOptions == IF data.options.present THEN data.options.v ELSE <<>>

ChatInputCall ==
    ret.op = "create_args" /\ ret.who = "ctx" /\ ctx.type = "CHAT_INPUT"

\* a -> b -> x=1
PathABX ==
    <<Sub("SUB_COMMAND_GROUP", "a",
          <<Sub("SUB_COMMAND", "b", <<Leaf("INTEGER", "x", "1")>>)>>)>>

\* C5: for a CHAT_INPUT tree with unique leaf names (whose references
\* resolve), create_args returns the subcommand and group names depth first
\* as the positional sequence and one keyword entry per leaf keyed by its
\* name; leaves only give no positionals, no options give ([], {}), and
\* a -> b -> x=1 gives (["a", "b"], {"x": 1}).
C5_CreateArgs ==
    ChatInputCall =>
      LET leaves == LeafSeq(PayloadOptions)
          names  == PathNames(PayloadOptions)
      IN (UniqueNames(leaves) /\ \A i \in 1..Len(leaves) : Resolvable(leaves[i])) =>
         /\ ret.status = "ok" /\ ~ret.none
         /\ ret.args = [i \in 1..Len(names) |-> NameArg(names[i])]
         /\ DOMAIN ret.kwargs = {leaves[i].name : i \in 1..Len(leaves)}
         /\ Cardinality(DOMAIN ret.kwargs) = Len(leaves)
         /\ \A i \in 1..Len(leaves) :
               ret.kwargs[leaves[i].name] = LeafValue(leaves[i])
         /\ ((\A i \in 1..Len(PayloadOptions) : ~IsSub(PayloadOptions[i])) =>
               ret.args = <<>>)
         /\ (PayloadOptions = <<>> => ret.args = <<>> /\ ret.kwargs = EmptyMap)
         /\ (PayloadOptions = PathABX =>
               /\ ret.args = <<NameArg("a"), NameArg("b")>>
               /\ ret.kwargs = ("x" :> RawArg("1")))

\* two sibling subcommands, the first with a leaf below it
C5_Witness ==
    /\ ChatInputCall /\ ret.status = "ok"
    /\ ret.args = <<NameArg("b"), NameArg("c")>>
    /\ DOMAIN ret.kwargs = {"x", "y"}

\* C6: an entity ID that the resolved table lacks never gives a silent
\* null: from_data raises (KeyError) for a USER or MESSAGE interaction
\* whose target_id is not among the resolved members / messages, and
\* create_args raises for a user, channel or role option whose value is
\* not in its resolved map.
C6_Unresolved ==
    /\ (pc # "unparsed" /\ data.type = "USER"
          /\ data.target_id \notin DOMAIN data.resolved.members) =>
            pc = "failed"
    /\ (pc # "unparsed" /\ data.type = "MESSAGE"
          /\ data.target_id \notin DOMAIN data.resolved.messages) =>
            pc = "failed"
    /\ (pc = "failed" /\ ret.op = "from_data") => ret.status = "KeyError"
    /\ (pc = "parsed" /\ ctx.type \in {"USER", "MESSAGE"}) => ctx.target # Null
    /\ ChatInputCall =>
         LET leaves == LeafSeq(PayloadOptions) IN
         /\ (\E i \in 1..Len(leaves) : ~Resolvable(leaves[i])) =>
               /\ ret.status = "KeyError"
               /\ ret.args = <<>> /\ ret.kwargs = EmptyMap
         /\ \A k \in DOMAIN ret.kwargs : ret.kwargs[k] # Null

C6_Witness ==
    /\ pc = "failed"
    /\ data.type = "USER" /\ data.target_id = "2"
    /\ "1" \in DOMAIN data.resolved.members
    /\ ret.op = "from_data" /\ ret.status = "KeyError"

(***************************************************************************)
(* Properties of the Context lifecycle (checked under Spec)                *)
(***************************************************************************)
OutboundOps == {"send", "edit", "delete", "overwrite_permissions"}

\* the last call was an outbound action on a Context whose application has
\* DONT_REGISTER_WITH_DISCORD set
FlagCall ==
    /\ ret.op \in OutboundOps
    /\ Ctx(ret.who).app.kind # "None"
    /\ DontRegister(Ctx(ret.who).app)

\* C1 as stated: with the flag set, every outbound action, whatever its
\* arguments, makes no HTTP call and returns without error.
C1_Original ==
    FlagCall => ret.req = NoReq /\ ret.status = "ok"

\* the command argument of the last call names a command ID
CommandResolves ==
    \/ ret.command = "None"
    \/ /\ Ctx(ret.who).app.kind = "flask"
       /\ ret.command \in DOMAIN Ctx(ret.who).app.discord_commands

\* C1 amended: with the flag set no outbound action makes an HTTP call;
\* send, edit and delete return None; overwrite_permissions returns None
\* when its command resolves and raises the failed lookup otherwise
\* (ValueError for an unknown name, AttributeError on a frozen Context).
C1_Amended ==
    FlagCall =>
      /\ ret.req = NoReq
      /\ ret.value = "None"
      /\ ret.op \in {"send", "edit", "delete"} => ret.status = "ok"
      /\ ret.op = "overwrite_permissions" =>
            IF CommandResolves THEN ret.status = "ok"
            ELSE IF Ctx(ret.who).app.kind = "flask" THEN ret.status = "ValueError"
            ELSE ret.status = "AttributeError"

C1_Witness ==
    /\ FlagCall
    /\ ret.op = "overwrite_permissions" /\ ret.command = "nope"
    /\ ret.status = "ValueError" /\ ret.req = NoReq

\* C7: after from_data the type is the payload's (CHAT_INPUT when it gives
\* none), target is the resolved member at target_id for USER, the resolved
\* message at target_id for MESSAGE and None otherwise; create_args on a
\* USER or MESSAGE Context returns ([target], {}).
C7_Target ==
    /\ \A who \in Whos : Exists(who) =>
         LET c == Ctx(who) IN
         /\ c.type = (IF data.type = "None" THEN "CHAT_INPUT" ELSE data.type)
         /\ c.target_id = data.target_id
         /\ c.type = "USER" =>
              c.target = Entity("Member",
                                data.resolved.members[data.target_id].info,
                                data.resolved.users[data.target_id])
         /\ c.type = "MESSAGE" =>
              c.target = Entity("Message",
                                data.resolved.messages[data.target_id], "None")
         /\ c.type \notin {"USER", "MESSAGE"} => c.target = Null
    /\ (ret.op = "create_args" /\ Ctx(ret.who).type \in {"USER", "MESSAGE"}) =>
         /\ ret.status = "ok" /\ ~ret.none
         /\ ret.args = <<Ctx(ret.who).target>>
         /\ ret.kwargs = EmptyMap

C7_Witness ==
    /\ ret.op = "create_args" /\ ret.who = "ctx"
    /\ ctx.type = "MESSAGE"
    /\ ret.args = <<Entity("Message", "hi", "None")>>

\* a step of Freeze: every call records its method in ret, and the one step
\* that records none, RefreshToken, changes liveHeaders
FreezeStep == ret'.op = "freeze" /\ liveHeaders' = liveHeaders

\* C8: a successful freeze() gives a Context over a namespace whose config
\* has the three CONFIG_KEYS only and whose auth_headers are those of the
\* frozen Context at that moment; from then on the frozen Context's
\* auth_headers do not change, whatever the live headers become.
C8_Freeze ==
    [][ /\ (FreezeStep /\ ret'.status = "ok") =>
             /\ frozen'.cls = "Context"
             /\ frozen'.app.kind = "namespace"
             /\ DOMAIN frozen'.app.config = CONFIG_KEYS
             /\ \A key \in CONFIG_KEYS :
                   frozen'.app.config[key] = Ctx(ret'.who).app.config[key]
             /\ auth_headers(frozen', liveHeaders')
                   = auth_headers(Ctx(ret'.who), liveHeaders)
        /\ (frozen.cls # "None" /\ ~FreezeStep) =>
             auth_headers(frozen', liveHeaders') = auth_headers(frozen, liveHeaders)
      ]_vars

\* a frozen Context sends with its snapshot after the live headers changed
C8_Witness ==
    /\ frozen.cls # "None"
    /\ frozen.frozen_auth_headers = "Bearer t1"
    /\ liveHeaders = "Bearer t2"
    /\ ret.op = "send" /\ ret.who = "frozen"
    /\ ret.req.headers = "Bearer t1"

\* the Context and the AsyncContext built from the payload of this state
SyncCtx  == from_data("Context", ctx.discord, app, data).c
AsyncCtx == from_data("AsyncContext", ctx.discord, app, data).c

\* C9: for the same payload, configuration and arguments each outbound
\* action of Context and of AsyncContext has the same outcome: both skip
\* the call, or both issue the same request (method, url, headers, body)
\* and return the same value or raise the same failure.
C9_Identical ==
    pc = "parsed" =>
      \A response \in Responses, message \in Messages, remote \in Remotes,
         permissions \in Permissions, command \in Commands :
        /\ send(SyncCtx, response, remote, liveHeaders)
             = async_send(AsyncCtx, response, remote, liveHeaders, session)
        /\ edit(SyncCtx, response, message, remote, liveHeaders)
             = async_edit(AsyncCtx, response, message, remote, liveHeaders, session)
        /\ delete(SyncCtx, message, remote, liveHeaders)
             = async_delete(AsyncCtx, message, remote, liveHeaders, session)
        /\ overwrite_permissions(SyncCtx, permissions, command, remote, liveHeaders)
             = async_overwrite_permissions(AsyncCtx, permissions, command,
                                           remote, liveHeaders, session)

\* the fields from_data parsed
Parsed(c) ==
    <<c.type, c.options, c.resolved, c.members, c.channels, c.roles,
      c.messages, c.custom_id, c.primary_id, c.handler_state, c.target,
      c.target_id>>

\* C10: no call on a parsed Context changes its parsed fields, whether the
\* call succeeds or fails; create_handler_args leaves handler_state the
\* strings it was, and a repeated call returns what the first returned.
C10_Frame ==
    [][ /\ pc = "parsed" => Parsed(ctx') = Parsed(ctx)
        /\ (frozen.cls # "None" /\ ~FreezeStep) => Parsed(frozen') = Parsed(frozen)
        /\ (/\ ret.op = "create_handler_args" /\ ret'.op = "create_handler_args"
            /\ ret'.who = ret.who /\ ret'.params = ret.params) =>
              ret'.status = ret.status /\ ret'.hargs = ret.hargs
      ]_vars

C10_Witness ==
    /\ ret.op = "create_handler_args" /\ ret.who = "ctx"
    /\ ret.params = <<"int", "bool">>
    /\ ret.hargs = <<IntArg(5), BoolArg(TRUE)>>
    /\ ctx.handler_state = << <<"k">>, <<"5">>, S_True >>

====
